---- MODULE Spec2Model ----
(***************************************************************************)
(* A model of two drivers of p2llvm's libc:                                *)
(*   src/libc/drivers/diskio.c        the SD/MMC glue for FatFs            *)
(*   src/libc/drivers/SimpleSerial.c  the bit-banged serial driver (the    *)
(*                                    Propeller 1 bodies, lines 36-67 and  *)
(*                                    88-119)                              *)
(* SpecDisk runs the disk functions one call at a time against a card      *)
(* whose answers are chosen nondeterministically; SpecSerial runs one      *)
(* transmitter and one receiver against the free-running cycle counter.    *)
(***************************************************************************)
EXTENDS Integers, Sequences, FiniteSets, TLC

VARIABLES
    \* ---- diskio.c ----
    CardType,   \* static char CardType (diskio.c:19)
    pc,         \* position of the running disk function, "idle" between calls
    fn,         \* the disk function running, or the last one that returned
    pdrv,       \* argument: physical drive number
    sector,     \* argument: start sector (32 bits, as <<high half, low half>>)
    count,      \* argument: number of sectors
    ctrl,       \* argument: ioctl control code
    i,          \* local: loop counter
    type,       \* local of disk_initialize
    cmd,        \* local: the command chosen
    sect,       \* local: the translated address (32 bits, as a pair of halves)
    res,        \* local of disk_ioctl
    buff,       \* local BYTE buff[4] of disk_initialize
    boff,       \* how far the caller's buffer pointer has advanced, in bytes
    csd,        \* local BYTE csd[16] of disk_ioctl
    out,        \* what disk_ioctl stored through its buff pointer
    ret,        \* the value the last call returned
    bus,        \* the transport calls of the current call, run-length encoded
    session,    \* the drive of the last disk_initialize that succeeded and the type
                \* it stored (drv -1: none)
    \* ---- SimpleSerial.c ----
    cnt,        \* the cycle counter CNT (32 bits, as <<high half, low half>>)
    now,        \* cycles elapsed since the start (to measure with)
    bitcycles,  \* fp->drvarg[3], the bit-duration in cycles
    nonblock,   \* fp->_flag & _IONONBLOCK
    outa, dira, \* the tx pin's bits of OUTA and DIRA
    tpc,        \* _serial_putbyte: "idle" or "wait" (in waitcnt)
    tc,         \* _serial_putbyte: argument c
    tvalue, ti, twait,  \* _serial_putbyte: locals value, i, waitcycles
    tret,       \* what _serial_putbyte returned
    rpc,        \* _serial_getbyte: "idle", "start", "sample" or "stop"
    rvalue, ri, rwait,  \* _serial_getbyte: locals value, i, waitcycles
    rret,       \* what _serial_getbyte returned
    puts, gets, \* calls made of _serial_putbyte and _serial_getbyte
    t0,         \* now when _serial_putbyte read the counter
    edge,       \* now when the start bit was driven low (-1 before)
    lat,        \* cycles from the start edge to its detection (-1 before)
    rcall,      \* now and the rx pin's level when _serial_getbyte was called
    rxWaiting,  \* a blocking _serial_getbyte was waiting when putbyte started
    waits,      \* waitcnt and waitpeq executed by _serial_getbyte
    samples,    \* data bits sampled by _serial_getbyte
    sameCycle,  \* which cog acts first when both act in one cycle
    txlog,      \* the writes of the tx pin: <<cycles since t0, level>>
    txcalls,    \* how many calls of _serial_putbyte the program makes
    prevStop,   \* now when the call before wrote its stop bit (-1: no call before)
    \* ---- SimpleSerial.c, _serial_fopen ----
    opc,        \* position of _serial_fopen: "idle", "call", ..., "done"
    name,       \* argument: null, or the characters of the string
    pos,        \* how far the pointer name has advanced (1: the first character)
    baud, rxpin, txpin,  \* locals (unsigned int, as <<high half, low half>>)
    drvarg,     \* fp->drvarg[0..2]
    uart,       \* the arguments _uart_init was called with
    iodev,      \* fp->_flag & _IODEV
    lock,       \* fp->_lock
    oret        \* what _serial_fopen returned

dvars == <<CardType, pc, fn, pdrv, sector, count, ctrl, i, type, cmd, sect,
           res, buff, boff, csd, out, ret, bus, session>>

svars == <<cnt, now, bitcycles, nonblock, outa, dira, tpc, tc, tvalue, ti, twait,
           tret, rpc, rvalue, ri, rwait, rret, puts, gets, t0, edge, lat, rcall,
           rxWaiting, waits, samples, sameCycle, txlog, txcalls, prevStop>>

ovars == <<opc, name, pos, baud, rxpin, txpin, drvarg, uart, iodev, lock, oret>>

vars == <<dvars, svars, ovars>>

(***************************************************************************)
(* Bounds of the model.                                                    *)
(***************************************************************************)
MaxDrive == 1
MaxCount == 3

Drives == 0..MaxDrive
Counts == 0..MaxCount

(***************************************************************************)
(* 32-bit unsigned values are pairs <<high 16 bits, low 16 bits>>.          *)
(***************************************************************************)
Half == 2^16

U32(n) == <<(n \div Half) % Half, n % Half>>

\* x * 512 in 32-bit unsigned arithmetic (sect = sect * 512)
Mul512(x) == <<(x[1] * 512 + (x[2] * 512) \div Half) % Half, (x[2] * 512) % Half>>

Sectors == { U32(0), U32(1), <<128, 0>>, <<65535, 65535>> }

(***************************************************************************)
(* Card type bits (the comment of diskio.c:19) and return codes.           *)
(***************************************************************************)
CT_MMC == 1
CT_SDC1 == 2
CT_SDC2 == 4
CT_BLOCK == 8
CT_SDC == CT_SDC1 + CT_SDC2

STA_NOINIT == "STA_NOINIT"
RES_OK == "RES_OK"
RES_ERROR == "RES_ERROR"
RES_PARERR == "RES_PARERR"

RECURSIVE BitAnd(_, _)
BitAnd(a, b) ==
    IF a = 0 \/ b = 0 THEN 0
    ELSE (a % 2) * (b % 2) + 2 * BitAnd(a \div 2, b \div 2)

(***************************************************************************)
(* The transport (sd_mmc.h): every call is recorded in bus; what the card  *)
(* answers is an input.                                                    *)
(***************************************************************************)
Responses == {0, 1, 5}      \* R1: ready, idle, idle + illegal command
Flags == {0, 1}             \* ReceiveBlock, SendBlock, SelectSD: failed, done

NoArg == U32(0)

\* One transport call: at is the line of diskio.c that makes it, off the offset
\* of its buffer in the caller's buffer, data the bytes the card delivered,
\* res what the call returned, n how many times in a row it was made.
Op(at, o, d, c, a, off, len, tok, data, r) ==
    [at |-> at, op |-> o, drv |-> d, cmd |-> c, arg |-> a, off |-> off,
     len |-> len, tok |-> tok, data |-> data, res |-> r, n |-> 1]

EnableSD(at, d) == Op(at, "EnableSD", d, "", NoArg, 0, 0, 0, <<>>, 0)
ReleaseSD(at, d) == Op(at, "ReleaseSD", d, "", NoArg, 0, 0, 0, <<>>, 0)
SelectSD(at, d, r) == Op(at, "SelectSD", d, "", NoArg, 0, 0, 0, <<>>, r)
ReceiveSD(at, d, len, data) == Op(at, "ReceiveSD", d, "", NoArg, 0, len, 0, data, 0)
SendCommand(at, d, c, a, r) == Op(at, "SendCommand", d, c, a, 0, 0, 0, <<>>, r)
ReceiveBlock(at, d, off, len, data, r) ==
    Op(at, "ReceiveBlock", d, "", NoArg, off, len, 0, data, r)
SendBlock(at, d, off, tok, r) == Op(at, "SendBlock", d, "", NoArg, off, 0, tok, <<>>, r)

\* log with k more calls e; equal consecutive calls share one entry
Logged(log, e, k) ==
    IF k = 0 THEN log
    ELSE IF log # <<>> /\ [log[Len(log)] EXCEPT !.n = 1] = e
         THEN [log EXCEPT ![Len(log)].n = @ + k]
         ELSE Append(log, [e EXCEPT !.n = k])

(***************************************************************************)
(* disk_status (diskio.c:25-30)                                            *)
(***************************************************************************)
Locals0 ==
    /\ i' = 0 /\ type' = 0 /\ cmd' = "" /\ sect' = NoArg /\ res' = RES_ERROR
    /\ buff' = <<0, 0, 0, 0>> /\ boff' = 0 /\ csd' = <<>> /\ out' = "none"

disk_status ==
    /\ pc = "idle"
    /\ \E d \in Drives : pdrv' = d
    /\ fn' = "disk_status"
    /\ ret' = "0"
    /\ bus' = <<>>
    /\ Locals0
    /\ sector' = NoArg /\ count' = 0 /\ ctrl' = ""
    /\ UNCHANGED <<svars, ovars>>
    /\ UNCHANGED <<CardType, session, pc>>

(***************************************************************************)
(* disk_initialize (diskio.c:38-111)                                       *)
(***************************************************************************)
DummyClocks == 100
MaxPolls == 10000

\* 4-byte replies the card may give after CMD8 (R7) and after CMD58 (OCR)
R7Replies == { <<0, 0, 1, 170>>, <<0, 0, 1, 0>>, <<0, 0, 0, 170>> }
OcrReplies == { <<192, 255, 128, 0>>, <<128, 255, 128, 0>> }

\* how many polls the card answers busy (nonzero) before it answers 0
BusyPolls == {0, 1, MaxPolls - 1, MaxPolls, MaxPolls + 1}

\* lines 47-50, the call and EnableSD
InitEnable ==
    /\ pc = "idle"
    /\ \E d \in Drives : pdrv' = d /\ bus' = <<EnableSD(47, d)>>
    /\ fn' = "disk_initialize"
    /\ Locals0
    /\ sector' = NoArg /\ count' = 0 /\ ctrl' = ""
    /\ pc' = "init_dummy"
    /\ UNCHANGED <<svars, ovars>>
    /\ UNCHANGED <<CardType, session, ret>>

\* lines 49-50: for (i=0;i<100;i++) ReceiveSD(pdrv, buff, 1);
InitDummy ==
    /\ pc = "init_dummy"
    /\ i < DummyClocks
    /\ bus' = Logged(bus, ReceiveSD(50, pdrv, 1, <<255>>), 1)
    /\ buff' = [buff EXCEPT ![1] = 255]
    /\ i' = i + 1
    /\ UNCHANGED <<svars, ovars>>
    /\ UNCHANGED <<CardType, session, pc, fn, pdrv, sector, count, ctrl, type, cmd, sect,
                   res, boff, csd, out, ret>>

\* lines 52-53: type = 0; if (SendCommand(pdrv, CMD0, 0) == 1)
InitCmd0 ==
    /\ pc = "init_dummy"
    /\ ~(i < DummyClocks)
    /\ type' = 0
    /\ \E r \in Responses :
        /\ bus' = Logged(bus, SendCommand(53, pdrv, "CMD0", U32(0), r), 1)
        /\ pc' = IF r = 1 THEN "init_cmd8" ELSE "init_store"
    /\ UNCHANGED <<svars, ovars>>
    /\ UNCHANGED <<CardType, session, fn, pdrv, sector, count, ctrl, i, cmd, sect, res,
                   buff, boff, csd, out, ret>>

\* line 55: if (SendCommand(pdrv, CMD8, 0x1AA) == 1)
InitCmd8 ==
    /\ pc = "init_cmd8"
    /\ \E r \in Responses :
        /\ bus' = Logged(bus, SendCommand(55, pdrv, "CMD8", U32(426), r), 1)
        /\ pc' = IF r = 1 THEN "init_r7" ELSE "init_probe"
    /\ UNCHANGED <<svars, ovars>>
    /\ UNCHANGED <<CardType, session, fn, pdrv, sector, count, ctrl, i, type, cmd, sect,
                   res, buff, boff, csd, out, ret>>

\* lines 57-58: ReceiveSD(pdrv, buff, 4); if ((buff[2] == 0x01) && (buff[3] == 0xaa))
InitR7 ==
    /\ pc = "init_r7"
    /\ \E b \in R7Replies :
        /\ bus' = Logged(bus, ReceiveSD(57, pdrv, 4, b), 1)
        /\ buff' = b
        /\ pc' = IF b[3] = 1 /\ b[4] = 170 THEN "init_poll2" ELSE "init_store"
    /\ UNCHANGED <<svars, ovars>>
    /\ UNCHANGED <<CardType, session, fn, pdrv, sector, count, ctrl, i, type, cmd, sect,
                   res, boff, csd, out, ret>>

\* The polling loops (lines 60-65 and 91-96), run to their end in one step:
\*   for (i=0;i<10000;i++) { if (SendCommand(pdrv, c, a) == 0) break; WAITS; }
\* against a card that answers busy (1) to its first `busy` polls and 0 after.
\* i is the counter after the loop, ready whether it left through the break.
PollLoopOneMore(busy) ==
    IF busy < MaxPolls + 1
    THEN [i |-> busy, ready |-> TRUE]
    ELSE [i |-> MaxPolls + 1, ready |-> FALSE]

PollLoop(busy) ==
    IF busy < MaxPolls
    THEN [i |-> busy, ready |-> TRUE]
    ELSE [i |-> MaxPolls, ready |-> FALSE]

PollLog(log, at, d, c, a, busy) ==
    LET waited == Logged(log, SendCommand(at, d, c, a, 1), PollLoop(busy).i)
    IN  IF PollLoop(busy).ready
        THEN Logged(waited, SendCommand(at, d, c, a, 0), 1)
        ELSE waited

\* lines 60-66, SD v2: ACMD41 with HCS, then if (i < 10000)
InitPoll2 ==
    /\ pc = "init_poll2"
    /\ \E busy \in BusyPolls :
        /\ i' = PollLoop(busy).i
        /\ bus' = PollLog(bus, 62, pdrv, "ACMD41", <<16384, 0>>, busy)
        /\ pc' = IF PollLoop(busy).i < MaxPolls THEN "init_cmd58" ELSE "init_store"
    /\ UNCHANGED <<svars, ovars>>
    /\ UNCHANGED <<CardType, session, fn, pdrv, sector, count, ctrl, type, cmd, sect,
                   res, buff, boff, csd, out, ret>>

\* line 68: if (SendCommand(pdrv, CMD58, 0) == 0)
InitCmd58 ==
    /\ pc = "init_cmd58"
    /\ \E r \in Responses :
        /\ bus' = Logged(bus, SendCommand(68, pdrv, "CMD58", U32(0), r), 1)
        /\ pc' = IF r = 0 THEN "init_ocr" ELSE "init_store"
    /\ UNCHANGED <<svars, ovars>>
    /\ UNCHANGED <<CardType, session, fn, pdrv, sector, count, ctrl, i, type, cmd, sect,
                   res, buff, boff, csd, out, ret>>

\* mutant: tests bit 7 (0x80, the power-up bit) instead of bit 6
InitOcrBit7 ==
    /\ pc = "init_ocr"
    /\ \E b \in OcrReplies :
        /\ bus' = Logged(bus, ReceiveSD(70, pdrv, 4, b), 1)
        /\ buff' = b
        /\ type' = IF BitAnd(b[1], 128) = 0 THEN CT_SDC2 ELSE CT_SDC2 + CT_BLOCK
    /\ pc' = "init_store"
    /\ UNCHANGED <<svars, ovars>>
    /\ UNCHANGED <<CardType, session, fn, pdrv, sector, count, ctrl, i, cmd, sect, res,
                   boff, csd, out, ret>>

\* lines 70-74: ReceiveSD(pdrv, buff, 4); type by (buff[0] & 0x40)
InitOcr ==
    /\ pc = "init_ocr"
    /\ \E b \in OcrReplies :
        /\ bus' = Logged(bus, ReceiveSD(70, pdrv, 4, b), 1)
        /\ buff' = b
        /\ type' = IF BitAnd(b[1], 64) = 0 THEN CT_SDC2 ELSE CT_SDC2 + CT_BLOCK
    /\ pc' = "init_store"
    /\ UNCHANGED <<svars, ovars>>
    /\ UNCHANGED <<CardType, session, fn, pdrv, sector, count, ctrl, i, cmd, sect, res,
                   boff, csd, out, ret>>

\* mutant: takes only the answer 0 for an SD v1 card (== 0 for <= 1)
InitProbeOnlyReady ==
    /\ pc = "init_probe"
    /\ \E r \in Responses :
        /\ bus' = Logged(bus, SendCommand(81, pdrv, "ACMD41", U32(0), r), 1)
        /\ type' = IF r = 0 THEN CT_SDC1 ELSE CT_MMC
        /\ cmd' = IF r = 0 THEN "ACMD41" ELSE "CMD1"
    /\ pc' = "init_poll1"
    /\ UNCHANGED <<svars, ovars>>
    /\ UNCHANGED <<CardType, session, fn, pdrv, sector, count, ctrl, i, sect, res, buff,
                   boff, csd, out, ret>>

\* lines 81-90: if (SendCommand(pdrv, ACMD41, 0) <= 1) SDv1 else MMCv3
InitProbe ==
    /\ pc = "init_probe"
    /\ \E r \in Responses :
        /\ bus' = Logged(bus, SendCommand(81, pdrv, "ACMD41", U32(0), r), 1)
        /\ type' = IF r <= 1 THEN CT_SDC1 ELSE CT_MMC
        /\ cmd' = IF r <= 1 THEN "ACMD41" ELSE "CMD1"
    /\ pc' = "init_poll1"
    /\ UNCHANGED <<svars, ovars>>
    /\ UNCHANGED <<CardType, session, fn, pdrv, sector, count, ctrl, i, sect, res, buff,
                   boff, csd, out, ret>>

\* lines 91-96, SD v1 or MMC: poll cmd with argument 0
InitPoll1 ==
    /\ pc = "init_poll1"
    /\ \E busy \in BusyPolls :
        /\ i' = PollLoop(busy).i
        /\ bus' = PollLog(bus, 93, pdrv, cmd, U32(0), busy)
    /\ pc' = "init_cmd16"
    /\ UNCHANGED <<svars, ovars>>
    /\ UNCHANGED <<CardType, session, fn, pdrv, sector, count, ctrl, type, cmd, sect,
                   res, buff, boff, csd, out, ret>>

\* lines 97-98: if ((i == 10000) || (SendCommand(pdrv, CMD16, 512) != 0)) type = 0;
InitCmd16 ==
    /\ pc = "init_cmd16"
    /\ IF i = MaxPolls
       THEN /\ type' = 0
            /\ bus' = bus
       ELSE \E r \in Responses :
            /\ bus' = Logged(bus, SendCommand(97, pdrv, "CMD16", U32(512), r), 1)
            /\ type' = IF r # 0 THEN 0 ELSE type
    /\ pc' = "init_store"
    /\ UNCHANGED <<svars, ovars>>
    /\ UNCHANGED <<CardType, session, fn, pdrv, sector, count, ctrl, i, cmd, sect, res,
                   buff, boff, csd, out, ret>>

\* The session a caller holds: the drive whose disk_initialize succeeded last
\* and the type that call stored.  A disk_initialize that fails ends the
\* session of its own drive and is no business of another drive's session.
NoSession == [drv |-> -1, type |-> 0]

Followed(s, d, t) ==
    IF t # 0 THEN [drv |-> d, type |-> t]
    ELSE IF s.drv = d THEN NoSession
    ELSE s

\* mutant: a failed disk_initialize leaves the type stored before
InitStoreKeeps ==
    /\ pc = "init_store"
    /\ CardType' = IF type # 0 THEN type ELSE CardType
    /\ session' = Followed(session, pdrv, type)
    /\ bus' = Logged(bus, ReleaseSD(102, pdrv), 1)
    /\ ret' = IF type = 0 THEN STA_NOINIT ELSE "0"
    /\ pc' = "idle"
    /\ UNCHANGED <<svars, ovars>>
    /\ UNCHANGED <<fn, pdrv, sector, count, ctrl, i, type, cmd, sect, res, buff,
                   boff, csd, out>>

\* lines 101-110: CardType = type; ReleaseSD(pdrv); return
InitStore ==
    /\ pc = "init_store"
    /\ CardType' = type
    /\ session' = Followed(session, pdrv, type)
    /\ bus' = Logged(bus, ReleaseSD(102, pdrv), 1)
    /\ ret' = IF type = 0 THEN STA_NOINIT ELSE "0"
    /\ pc' = "idle"
    /\ UNCHANGED <<svars, ovars>>
    /\ UNCHANGED <<fn, pdrv, sector, count, ctrl, i, type, cmd, sect, res, buff,
                   boff, csd, out>>

disk_initialize ==
    \/ InitEnable \/ InitDummy \/ InitCmd0 \/ InitCmd8 \/ InitR7 \/ InitPoll2
    \/ InitCmd58 \/ InitOcr \/ InitProbe \/ InitPoll1 \/ InitCmd16 \/ InitStore

(***************************************************************************)
(* disk_read (diskio.c:119-157)                                            *)
(***************************************************************************)
\* lines 126-136: the address translation and the choice of the command
ReadBegin ==
    /\ pc = "idle"
    /\ \E d \in Drives, s \in Sectors, c \in Counts :
        /\ pdrv' = d /\ sector' = s /\ count' = c
        /\ sect' = IF BitAnd(CardType, CT_BLOCK) = 0 THEN Mul512(s) ELSE s
        /\ cmd' = IF c > 1 THEN "CMD18" ELSE "CMD17"
    /\ fn' = "disk_read"
    /\ i' = 0 /\ boff' = 0 /\ bus' = <<>>
    /\ type' = 0 /\ res' = RES_ERROR /\ buff' = <<0, 0, 0, 0>> /\ csd' = <<>>
    /\ out' = "none" /\ ctrl' = ""
    /\ pc' = "read_cmd"
    /\ UNCHANGED <<svars, ovars>>
    /\ UNCHANGED <<CardType, session, ret>>

\* line 138: if (SendCommand(pdrv, cmd, sect) == 0), then i = 0 of the for
ReadCmd ==
    /\ pc = "read_cmd"
    /\ \E r \in Responses :
        /\ bus' = Logged(bus, SendCommand(138, pdrv, cmd, sect, r), 1)
        /\ pc' = IF r = 0 THEN "read_loop" ELSE "read_release"
    /\ i' = 0
    /\ UNCHANGED <<svars, ovars>>
    /\ UNCHANGED <<CardType, session, fn, pdrv, sector, count, ctrl, type, cmd, sect,
                   res, buff, boff, csd, out, ret>>

\* mutant: counts the block before looking at what ReceiveBlock returned
ReadBlockCountsFailed ==
    /\ pc = "read_loop"
    /\ i < count
    /\ \E ok \in Flags :
        /\ bus' = Logged(bus, ReceiveBlock(142, pdrv, boff, 512, <<>>, ok), 1)
        /\ pc' = IF ok = 0 THEN "read_stop" ELSE pc
    /\ boff' = boff + 512
    /\ i' = i + 1
    /\ UNCHANGED <<svars, ovars>>
    /\ UNCHANGED <<CardType, session, fn, pdrv, sector, count, ctrl, type, cmd, sect,
                   res, buff, csd, out, ret>>

\* mutant: no break when ReceiveBlock fails
ReadBlockNoBreak ==
    /\ pc = "read_loop"
    /\ i < count
    /\ \E ok \in Flags :
        bus' = Logged(bus, ReceiveBlock(142, pdrv, boff, 512, <<>>, ok), 1)
    /\ boff' = boff + 512
    /\ i' = i + 1
    /\ UNCHANGED <<svars, ovars>>
    /\ UNCHANGED <<CardType, session, pc, fn, pdrv, sector, count, ctrl, type, cmd,
                   sect, res, buff, csd, out, ret>>

\* lines 140-145: one pass of the loop body
ReadBlock ==
    /\ pc = "read_loop"
    /\ i < count
    /\ \E ok \in Flags :
        /\ bus' = Logged(bus, ReceiveBlock(142, pdrv, boff, 512, <<>>, ok), 1)
        /\ IF ok = 0
           THEN pc' = "read_stop" /\ UNCHANGED <<i, boff>>
           ELSE pc' = pc /\ boff' = boff + 512 /\ i' = i + 1
    /\ UNCHANGED <<svars, ovars>>
    /\ UNCHANGED <<CardType, session, fn, pdrv, sector, count, ctrl, type, cmd, sect,
                   res, buff, csd, out, ret>>

\* line 140: the loop ends when i < count is false
ReadLoopEnd ==
    /\ pc = "read_loop"
    /\ ~(i < count)
    /\ pc' = "read_stop"
    /\ UNCHANGED <<svars, ovars>>
    /\ UNCHANGED <<CardType, session, fn, pdrv, sector, count, ctrl, i, type, cmd, sect,
                   res, buff, boff, csd, out, ret, bus>>

\* mutant: CMD12 only after a transfer that received every block
ReadStopOnSuccess ==
    /\ pc = "read_stop"
    /\ IF cmd = "CMD18" /\ i = count
       THEN \E r \in Responses :
                bus' = Logged(bus, SendCommand(147, pdrv, "CMD12", U32(0), r), 1)
       ELSE bus' = bus
    /\ pc' = "read_release"
    /\ UNCHANGED <<svars, ovars>>
    /\ UNCHANGED <<CardType, session, fn, pdrv, sector, count, ctrl, i, type, cmd, sect,
                   res, buff, boff, csd, out, ret>>

\* lines 146-147: if (cmd == CMD18) SendCommand(pdrv, CMD12, 0);
ReadStop ==
    /\ pc = "read_stop"
    /\ IF cmd = "CMD18"
       THEN \E r \in Responses :
                bus' = Logged(bus, SendCommand(147, pdrv, "CMD12", U32(0), r), 1)
       ELSE bus' = bus
    /\ pc' = "read_release"
    /\ UNCHANGED <<svars, ovars>>
    /\ UNCHANGED <<CardType, session, fn, pdrv, sector, count, ctrl, i, type, cmd, sect,
                   res, buff, boff, csd, out, ret>>

\* mutant: a failed read marks the card as not initialized
ReadReleaseForgets ==
    /\ pc = "read_release"
    /\ bus' = Logged(bus, ReleaseSD(149, pdrv), 1)
    /\ ret' = IF i # count THEN RES_ERROR ELSE RES_OK
    /\ CardType' = IF i # count THEN 0 ELSE CardType
    /\ pc' = "idle"
    /\ UNCHANGED <<svars, ovars>>
    /\ UNCHANGED <<session, fn, pdrv, sector, count, ctrl, i, type, cmd, sect,
                   res, buff, boff, csd, out>>

\* lines 149-156: ReleaseSD(pdrv); if (i != count) return RES_ERROR; return RES_OK;
ReadRelease ==
    /\ pc = "read_release"
    /\ bus' = Logged(bus, ReleaseSD(149, pdrv), 1)
    /\ ret' = IF i # count THEN RES_ERROR ELSE RES_OK
    /\ pc' = "idle"
    /\ UNCHANGED <<svars, ovars>>
    /\ UNCHANGED <<CardType, session, fn, pdrv, sector, count, ctrl, i, type, cmd, sect,
                   res, buff, boff, csd, out>>

disk_read ==
    \/ ReadBegin \/ ReadCmd \/ ReadBlock \/ ReadLoopEnd \/ ReadStop \/ ReadRelease

(***************************************************************************)
(* disk_write (diskio.c:167-211)                                           *)
(***************************************************************************)
\* lines 174-180: the address translation and if (count == 1)
WriteBegin ==
    /\ pc = "idle"
    /\ \E d \in Drives, s \in Sectors, c \in Counts :
        /\ pdrv' = d /\ sector' = s /\ count' = c
        /\ sect' = IF BitAnd(CardType, CT_BLOCK) = 0 THEN Mul512(s) ELSE s
        /\ pc' = IF c = 1 THEN "write_cmd24" ELSE "write_acmd23"
    /\ fn' = "disk_write"
    /\ i' = 0 /\ boff' = 0 /\ bus' = <<>>
    /\ type' = 0 /\ cmd' = "" /\ res' = RES_ERROR /\ buff' = <<0, 0, 0, 0>>
    /\ csd' = <<>> /\ out' = "none" /\ ctrl' = ""
    /\ UNCHANGED <<svars, ovars>>
    /\ UNCHANGED <<CardType, session, ret>>

\* line 182: if (SendCommand(pdrv, CMD24, sect) == 0)
WriteCmd24 ==
    /\ pc = "write_cmd24"
    /\ \E r \in Responses :
        /\ bus' = Logged(bus, SendCommand(182, pdrv, "CMD24", sect, r), 1)
        /\ pc' = IF r = 0 THEN "write_single" ELSE "write_release"
    /\ UNCHANGED <<svars, ovars>>
    /\ UNCHANGED <<CardType, session, fn, pdrv, sector, count, ctrl, i, type, cmd, sect,
                   res, buff, boff, csd, out, ret>>

\* lines 183-184: if (SendBlock(pdrv, buff, 0xfe) != 0) i = 1;
WriteSingle ==
    /\ pc = "write_single"
    /\ \E ok \in Flags :
        /\ bus' = Logged(bus, SendBlock(183, pdrv, boff, 254, ok), 1)
        /\ i' = IF ok # 0 THEN 1 ELSE i
    /\ pc' = "write_release"
    /\ UNCHANGED <<svars, ovars>>
    /\ UNCHANGED <<CardType, session, fn, pdrv, sector, count, ctrl, type, cmd, sect,
                   res, buff, boff, csd, out, ret>>

\* mutant: announces the count to every card, SD or not
WriteAcmd23Always ==
    /\ pc = "write_acmd23"
    /\ \E r \in Responses :
        bus' = Logged(bus, SendCommand(189, pdrv, "ACMD23", U32(count), r), 1)
    /\ pc' = "write_cmd25"
    /\ UNCHANGED <<svars, ovars>>
    /\ UNCHANGED <<CardType, session, fn, pdrv, sector, count, ctrl, i, type, cmd, sect,
                   res, buff, boff, csd, out, ret>>

\* lines 188-189: if ((CardType & CT_SDC) != 0) SendCommand(pdrv, ACMD23, count);
WriteAcmd23 ==
    /\ pc = "write_acmd23"
    /\ IF BitAnd(CardType, CT_SDC) # 0
       THEN \E r \in Responses :
                bus' = Logged(bus, SendCommand(189, pdrv, "ACMD23", U32(count), r), 1)
       ELSE bus' = bus
    /\ pc' = "write_cmd25"
    /\ UNCHANGED <<svars, ovars>>
    /\ UNCHANGED <<CardType, session, fn, pdrv, sector, count, ctrl, i, type, cmd, sect,
                   res, buff, boff, csd, out, ret>>

\* line 190: if ((SendCommand(pdrv, CMD25, sect) == 0)), then i = 0 of the for
WriteCmd25 ==
    /\ pc = "write_cmd25"
    /\ \E r \in Responses :
        /\ bus' = Logged(bus, SendCommand(190, pdrv, "CMD25", sect, r), 1)
        /\ pc' = IF r = 0 THEN "write_loop" ELSE "write_release"
        /\ i' = IF r = 0 THEN 0 ELSE i
    /\ UNCHANGED <<svars, ovars>>
    /\ UNCHANGED <<CardType, session, fn, pdrv, sector, count, ctrl, type, cmd, sect,
                   res, buff, boff, csd, out, ret>>

\* mutant: no break when SendBlock fails
WriteBlockNoBreak ==
    /\ pc = "write_loop"
    /\ i < count
    /\ \E ok \in Flags :
        bus' = Logged(bus, SendBlock(194, pdrv, boff, 252, ok), 1)
    /\ boff' = boff + 512
    /\ i' = i + 1
    /\ UNCHANGED <<svars, ovars>>
    /\ UNCHANGED <<CardType, session, pc, fn, pdrv, sector, count, ctrl, type, cmd, sect,
                   res, buff, csd, out, ret>>

\* lines 192-197: one pass of the loop body
WriteBlock ==
    /\ pc = "write_loop"
    /\ i < count
    /\ \E ok \in Flags :
        /\ bus' = Logged(bus, SendBlock(194, pdrv, boff, 252, ok), 1)
        /\ IF ok = 0
           THEN pc' = "write_stoptoken" /\ UNCHANGED <<i, boff>>
           ELSE pc' = pc /\ boff' = boff + 512 /\ i' = i + 1
    /\ UNCHANGED <<svars, ovars>>
    /\ UNCHANGED <<CardType, session, fn, pdrv, sector, count, ctrl, type, cmd, sect,
                   res, buff, csd, out, ret>>

\* line 192: the loop ends when i < count is false
WriteLoopEnd ==
    /\ pc = "write_loop"
    /\ ~(i < count)
    /\ pc' = "write_stoptoken"
    /\ UNCHANGED <<svars, ovars>>
    /\ UNCHANGED <<CardType, session, fn, pdrv, sector, count, ctrl, i, type, cmd, sect,
                   res, buff, boff, csd, out, ret, bus>>

\* mutant: what SendBlock returns for the stop token is ignored
WriteStopTokenIgnored ==
    /\ pc = "write_stoptoken"
    /\ \E ok \in Flags :
        bus' = Logged(bus, SendBlock(198, pdrv, -1, 253, ok), 1)
    /\ pc' = "write_release"
    /\ UNCHANGED <<svars, ovars>>
    /\ UNCHANGED <<CardType, session, fn, pdrv, sector, count, ctrl, i, type, cmd, sect,
                   res, buff, boff, csd, out, ret>>

\* lines 198-199: if (SendBlock(pdrv, 0, 0xfd) == 0) i = 0;   (a null buffer: off -1)
WriteStopToken ==
    /\ pc = "write_stoptoken"
    /\ \E ok \in Flags :
        /\ bus' = Logged(bus, SendBlock(198, pdrv, -1, 253, ok), 1)
        /\ i' = IF ok = 0 THEN 0 ELSE i
    /\ pc' = "write_release"
    /\ UNCHANGED <<svars, ovars>>
    /\ UNCHANGED <<CardType, session, fn, pdrv, sector, count, ctrl, type, cmd, sect,
                   res, buff, boff, csd, out, ret>>

\* lines 202-210: ReleaseSD(pdrv); if (count != i) return RES_ERROR; return RES_OK;
WriteRelease ==
    /\ pc = "write_release"
    /\ bus' = Logged(bus, ReleaseSD(202, pdrv), 1)
    /\ ret' = IF count # i THEN RES_ERROR ELSE RES_OK
    /\ pc' = "idle"
    /\ UNCHANGED <<svars, ovars>>
    /\ UNCHANGED <<CardType, session, fn, pdrv, sector, count, ctrl, i, type, cmd, sect,
                   res, buff, boff, csd, out>>

disk_write ==
    \/ WriteBegin \/ WriteCmd24 \/ WriteSingle \/ WriteAcmd23 \/ WriteCmd25
    \/ WriteBlock \/ WriteLoopEnd \/ WriteStopToken \/ WriteRelease

(***************************************************************************)
(* disk_ioctl (diskio.c:220-268)                                           *)
(***************************************************************************)
ControlCodes == {"CTRL_SYNC", "GET_SECTOR_COUNT", "GET_SECTOR_SIZE", "GET_BLOCK_SIZE"}

\* a 16-byte CSD with the bytes the function reads; the others are 0
Csd(b0, b5, b6, b7, b8, b9, b10) ==
    <<b0, 0, 0, 0, 0, b5, b6, b7, b8, b9, b10, 0, 0, 0, 0, 0>>

\* CSD registers the card may send.  READ_BL_LEN (low nibble of byte 5) is
\* 9..11 in every CSD a card sends, so the shift count n - 9 is never negative.
CsdSamples ==
    { Csd(32, 0, 0, 63, 0, 1, 0),       \* bit 5 of byte 0 set
      Csd(32, 0, 0, 0, 0, 0, 0),
      Csd(96, 0, 0, 255, 18, 52, 0),
      Csd(32, 0, 0, 63, 255, 255, 0),
      Csd(0, 89, 3, 255, 0, 195, 128),  \* bit 5 of byte 0 clear
      Csd(0, 90, 0, 1, 0, 64, 0) }

\* x << k in 32-bit unsigned arithmetic
RECURSIVE Shl32(_, _)
Shl32(x, k) ==
    IF k = 0 THEN x
    ELSE Shl32(<<(x[1] * 2 + (x[2] * 2) \div Half) % Half, (x[2] * 2) % Half>>, k - 1)

\* csd[k] of the C code (TLA+ sequences count from 1)
Byte(c, k) == c[k + 1]

\* lines 244-245: the sector count of a CSD with bit 5 of byte 0 set
SectorCountV1(c) ==
    LET cs == Byte(c, 9) + Byte(c, 8) * 256 + BitAnd(Byte(c, 7), 63) * 65536 + 1
    IN  Shl32(U32(cs), 10)

\* lines 249-251: the sector count of the other CSDs
SectorCountV0(c) ==
    LET n == (BitAnd(Byte(c, 5), 15) + (Byte(c, 10) \div 128)
              + BitAnd(Byte(c, 9), 3) * 2 + 2) % 256
        cs == (Byte(c, 9) \div 64) + Byte(c, 7) * 4 + BitAnd(Byte(c, 6), 3) * 1024 + 1
    IN  Shl32(U32(cs), n - 9)

\* lines 226-233: res = RES_ERROR; switch (ctrl)
IoctlBegin ==
    /\ pc = "idle"
    /\ \E d \in Drives, c \in ControlCodes :
        /\ pdrv' = d /\ ctrl' = c
        /\ pc' = CASE c = "CTRL_SYNC" -> "ioctl_sync"
                   [] c = "GET_SECTOR_COUNT" -> "ioctl_cmd9"
                   [] c = "GET_BLOCK_SIZE" -> "ioctl_blocksize"
                   [] OTHER -> "ioctl_default"
    /\ fn' = "disk_ioctl"
    /\ res' = RES_ERROR
    /\ bus' = <<>>
    /\ i' = 0 /\ type' = 0 /\ cmd' = "" /\ sect' = NoArg /\ buff' = <<0, 0, 0, 0>>
    /\ boff' = 0 /\ csd' = <<>> /\ out' = "none" /\ sector' = NoArg /\ count' = 0
    /\ UNCHANGED <<svars, ovars>>
    /\ UNCHANGED <<CardType, session, ret>>

\* lines 234-237: if (SelectSD(pdrv)) res = RES_OK;
IoctlSync ==
    /\ pc = "ioctl_sync"
    /\ \E ok \in Flags :
        /\ bus' = Logged(bus, SelectSD(235, pdrv, ok), 1)
        /\ res' = IF ok # 0 THEN RES_OK ELSE res
    /\ pc' = "ioctl_release"
    /\ UNCHANGED <<svars, ovars>>
    /\ UNCHANGED <<CardType, session, fn, pdrv, sector, count, ctrl, i, type, cmd, sect,
                   buff, boff, csd, out, ret>>

\* line 239: if ((SendCommand(pdrv, CMD9, 0) == 0))
IoctlCmd9 ==
    /\ pc = "ioctl_cmd9"
    /\ \E r \in Responses :
        /\ bus' = Logged(bus, SendCommand(239, pdrv, "CMD9", U32(0), r), 1)
        /\ pc' = IF r = 0 THEN "ioctl_csd" ELSE "ioctl_release"
    /\ UNCHANGED <<svars, ovars>>
    /\ UNCHANGED <<CardType, session, fn, pdrv, sector, count, ctrl, i, type, cmd, sect,
                   res, buff, boff, csd, out, ret>>

\* lines 240-254: if (ReceiveBlock(pdrv, csd, 16) != 0) { ...; res = RES_OK; }
IoctlCsd ==
    /\ pc = "ioctl_csd"
    /\ \E ok \in Flags, c \in CsdSamples :
        /\ bus' = Logged(bus, ReceiveBlock(240, pdrv, 0, 16, c, ok), 1)
        /\ csd' = c
        /\ IF ok # 0
           THEN /\ out' = IF BitAnd(Byte(c, 0), 32) # 0
                          THEN SectorCountV1(c) ELSE SectorCountV0(c)
                /\ res' = RES_OK
           ELSE UNCHANGED <<out, res>>
    /\ pc' = "ioctl_release"
    /\ UNCHANGED <<svars, ovars>>
    /\ UNCHANGED <<CardType, session, fn, pdrv, sector, count, ctrl, i, type, cmd, sect,
                   buff, boff, ret>>

\* lines 256-259: *(unsigned int*)buff = 128; res = RES_OK;
IoctlBlockSize ==
    /\ pc = "ioctl_blocksize"
    /\ out' = U32(128)
    /\ res' = RES_OK
    /\ pc' = "ioctl_release"
    /\ UNCHANGED <<svars, ovars>>
    /\ UNCHANGED <<CardType, session, fn, pdrv, sector, count, ctrl, i, type, cmd, sect,
                   buff, boff, csd, ret, bus>>

\* mutant: the default case returns at once, without ReleaseSD
IoctlDefaultReturns ==
    /\ pc = "ioctl_default"
    /\ res' = RES_PARERR
    /\ ret' = RES_PARERR
    /\ pc' = "idle"
    /\ UNCHANGED <<svars, ovars>>
    /\ UNCHANGED <<CardType, session, fn, pdrv, sector, count, ctrl, i, type, cmd, sect,
                   buff, boff, csd, out, bus>>

\* lines 260-261: default: res = RES_PARERR;
IoctlDefault ==
    /\ pc = "ioctl_default"
    /\ res' = RES_PARERR
    /\ pc' = "ioctl_release"
    /\ UNCHANGED <<svars, ovars>>
    /\ UNCHANGED <<CardType, session, fn, pdrv, sector, count, ctrl, i, type, cmd, sect,
                   buff, boff, csd, out, ret, bus>>

\* lines 263-267: ReleaseSD(pdrv); return res;
IoctlRelease ==
    /\ pc = "ioctl_release"
    /\ bus' = Logged(bus, ReleaseSD(263, pdrv), 1)
    /\ ret' = res
    /\ pc' = "idle"
    /\ UNCHANGED <<svars, ovars>>
    /\ UNCHANGED <<CardType, session, fn, pdrv, sector, count, ctrl, i, type, cmd, sect,
                   res, buff, boff, csd, out>>

disk_ioctl ==
    \/ IoctlBegin \/ IoctlSync \/ IoctlCmd9 \/ IoctlCsd \/ IoctlBlockSize
    \/ IoctlDefault \/ IoctlRelease

\* the disk driver between calls, as at start-up
DiskAtRest ==
    /\ CardType = 0
    /\ pc = "idle"
    /\ fn = "none"
    /\ pdrv = 0 /\ sector = NoArg /\ count = 0 /\ ctrl = ""
    /\ i = 0 /\ type = 0 /\ cmd = "" /\ sect = NoArg /\ res = RES_ERROR
    /\ buff = <<0, 0, 0, 0>> /\ boff = 0 /\ csd = <<>> /\ out = "none"
    /\ ret = "0"
    /\ bus = <<>>
    /\ session = NoSession

(***************************************************************************)
(* _serial_fopen (SimpleSerial.c:131-178), as built for the Propeller 2:   *)
(* the other branch of line 159 assigns a bitcycles that the function does *)
(* not declare.  The string is "baud,rxpin,txpin".                         *)
(***************************************************************************)
MaxLen == 5

\* the characters a string is made of: two digits, the comma, a sign, a blank
Chars == {"1", "9", ",", "-", " "}

Strings == UNION { [1..k -> Chars] : k \in 0..MaxLen }

Names == { [null |-> TRUE, s |-> <<>>] } \cup { [null |-> FALSE, s |-> s] : s \in Strings }

\* the defaults of the Propeller 2 (lines 135-137)
DBG_UART_TX_PIN == 62
DBG_UART_RX_PIN == 63
dbgbaud == 230400

\* the character at position p of the string s; "" is the terminating NUL
Ch(s, p) == IF p <= Len(s) THEN s[p] ELSE ""

DigitValue(c) == CASE c = "0" -> 0 [] c = "1" -> 1 [] c = "2" -> 2 [] c = "3" -> 3
                   [] c = "4" -> 4 [] c = "5" -> 5 [] c = "6" -> 6 [] c = "7" -> 7
                   [] c = "8" -> 8 [] c = "9" -> 9 [] OTHER -> -1

\* atoi: blanks are skipped, then an optional sign, then the digits up to the
\* first character that is not one; 0 when there is no digit
RECURSIVE SkipBlanks(_, _)
SkipBlanks(s, p) == IF Ch(s, p) = " " THEN SkipBlanks(s, p + 1) ELSE p

RECURSIVE Digits(_, _, _)
Digits(s, p, acc) ==
    IF DigitValue(Ch(s, p)) >= 0
    THEN Digits(s, p + 1, acc * 10 + DigitValue(Ch(s, p)))
    ELSE acc

atoi(s, p) ==
    LET q == SkipBlanks(s, p)
        r == IF Ch(s, q) \in {"-", "+"} THEN q + 1 ELSE q
    IN  IF Ch(s, q) = "-" THEN 0 - Digits(s, r, 0) ELSE Digits(s, r, 0)

\* the conversion of an int to unsigned int
Unsigned(n) ==
    IF n >= 0 THEN U32(n)
    ELSE <<Half - 1 - ((0 - n - 1) \div Half), Half - 1 - ((0 - n - 1) % Half)>>

OpenAtRest ==
    /\ opc = "idle"
    /\ name = [null |-> TRUE, s |-> <<>>]
    /\ pos = 1
    /\ baud = U32(0) /\ rxpin = U32(0) /\ txpin = U32(0)
    /\ drvarg = <<>> /\ uart = <<>> /\ iodev = FALSE /\ lock = "none" /\ oret = -1

\* lines 135-145: the defaults; if (name && *name) baud = atoi(name);
FopenBegin ==
    /\ opc = "call"
    /\ txpin' = U32(DBG_UART_TX_PIN)
    /\ rxpin' = U32(DBG_UART_RX_PIN)
    /\ IF ~name.null /\ Ch(name.s, pos) # ""
       THEN baud' = Unsigned(atoi(name.s, pos)) /\ opc' = "skip_baud"
       ELSE baud' = U32(dbgbaud) /\ opc' = "store"
    /\ UNCHANGED <<dvars, svars>>
    /\ UNCHANGED <<name, pos, drvarg, uart, iodev, lock, oret>>

\* line 146: while (*name && *name != ',') name++;
FopenSkipBaud ==
    /\ opc = "skip_baud"
    /\ Ch(name.s, pos) # "" /\ Ch(name.s, pos) # ","
    /\ pos' = pos + 1
    /\ UNCHANGED <<dvars, svars>>
    /\ UNCHANGED <<opc, name, baud, rxpin, txpin, drvarg, uart, iodev, lock, oret>>

\* mutant: the second field is taken for txpin
FopenRxpinIsTxpin ==
    /\ opc = "skip_baud"
    /\ ~(Ch(name.s, pos) # "" /\ Ch(name.s, pos) # ",")
    /\ IF Ch(name.s, pos) # ""
       THEN /\ pos' = pos + 1
            /\ txpin' = Unsigned(atoi(name.s, pos + 1))
            /\ opc' = "skip_rxpin"
       ELSE /\ opc' = "store"
            /\ UNCHANGED <<pos, txpin>>
    /\ UNCHANGED <<dvars, svars>>
    /\ UNCHANGED <<name, baud, rxpin, drvarg, uart, iodev, lock, oret>>

\* lines 146-149: the loop is left; if (*name) { name++; rxpin = atoi(name);
FopenRxpin ==
    /\ opc = "skip_baud"
    /\ ~(Ch(name.s, pos) # "" /\ Ch(name.s, pos) # ",")
    /\ IF Ch(name.s, pos) # ""
       THEN /\ pos' = pos + 1
            /\ rxpin' = Unsigned(atoi(name.s, pos + 1))
            /\ opc' = "skip_rxpin"
       ELSE /\ opc' = "store"
            /\ UNCHANGED <<pos, rxpin>>
    /\ UNCHANGED <<dvars, svars>>
    /\ UNCHANGED <<name, baud, txpin, drvarg, uart, iodev, lock, oret>>

\* line 150: while (*name && *name != ',') name++;
FopenSkipRxpin ==
    /\ opc = "skip_rxpin"
    /\ Ch(name.s, pos) # "" /\ Ch(name.s, pos) # ","
    /\ pos' = pos + 1
    /\ UNCHANGED <<dvars, svars>>
    /\ UNCHANGED <<opc, name, baud, rxpin, txpin, drvarg, uart, iodev, lock, oret>>

\* lines 150-155: the loop is left; if (*name) { name++; txpin = atoi(name); }
FopenTxpin ==
    /\ opc = "skip_rxpin"
    /\ ~(Ch(name.s, pos) # "" /\ Ch(name.s, pos) # ",")
    /\ IF Ch(name.s, pos) # ""
       THEN /\ pos' = pos + 1
            /\ txpin' = Unsigned(atoi(name.s, pos + 1))
       ELSE UNCHANGED <<pos, txpin>>
    /\ opc' = "store"
    /\ UNCHANGED <<dvars, svars>>
    /\ UNCHANGED <<name, baud, rxpin, drvarg, uart, iodev, lock, oret>>

\* lines 160-177: drvarg, _uart_init(rxpin, txpin, baud), _IODEV, the lock,
\* return 0
FopenStore ==
    /\ opc = "store"
    /\ drvarg' = <<rxpin, txpin, baud>>
    /\ uart' = <<rxpin, txpin, baud>>
    /\ iodev' = TRUE
    /\ lock' = "new"
    /\ oret' = 0
    /\ opc' = "done"
    /\ UNCHANGED <<dvars, svars>>
    /\ UNCHANGED <<name, pos, baud, rxpin, txpin>>

serial_fopen ==
    \/ FopenBegin \/ FopenSkipBaud \/ FopenRxpin \/ FopenSkipRxpin \/ FopenTxpin
    \/ FopenStore

(***************************************************************************)
(* SimpleSerial.c, the Propeller 1 bodies.  The transmitter and the        *)
(* receiver run on two cogs; the tx pin is wired to the rx pin.  Only the  *)
(* waits take time: waitcnt returns in the cycle in which CNT equals its   *)
(* target, and a pin is written or read in the cycle of the wait before.   *)
(* When the write of the tx pin and a read of the rx pin fall in the same  *)
(* cycle, which comes first is fixed for the frame by the phase of the two *)
(* cogs, and is not known: sameCycle is chosen when the receiver reads the *)
(* counter.                                                                *)
(***************************************************************************)
MaxBitCycles == 3

\* how many calls of _serial_putbyte in a row are followed, and for how many
\* cycles after a call has returned the next one may still be made
MaxPuts == 2
MaxGap == 4

\* the bytes of the calls after the first, which is given every byte
LaterBytes == {0, 165, 255}

\* bit-durations: _clkfreq / baud; below 2 cycles no bit has a centre
BitCycleChoices == 2..MaxBitCycles

\* the counter at the start: 5 cycles before it wraps, so that every call
\* computes targets on both sides of the wrap
CntStarts == { <<Half - 1, Half - 5>> }

\* x + n in 32-bit unsigned arithmetic, for 0 <= n < 2^16
Add32(x, n) == <<(x[1] + (x[2] + n) \div Half) % Half, (x[2] + n) % Half>>

BitOr(a, b) == a + b - BitAnd(a, b)

\* the level of the wire: the tx pin while it is driven, high (idle) otherwise
Line == IF dira = 1 THEN outa ELSE 1

SerialAtRest ==
    /\ cnt = <<0, 0>> /\ now = 0 /\ bitcycles = 2 /\ nonblock = FALSE
    /\ outa = 0 /\ dira = 0
    /\ tpc = "idle" /\ tc = 0 /\ tvalue = 0 /\ ti = 0 /\ twait = <<0, 0>> /\ tret = 0
    /\ rpc = "idle" /\ rvalue = 0 /\ ri = 0 /\ rwait = <<0, 0>> /\ rret = 0
    /\ puts = 0 /\ gets = 0 /\ t0 = 0 /\ edge = -1 /\ lat = -1
    /\ rcall = [at |-> -1, level |-> 1] /\ rxWaiting = FALSE
    /\ waits = 0 /\ samples = 0 /\ sameCycle = "none" /\ txlog = <<>>
    /\ txcalls = 1 /\ prevStop = -1

InitSerial ==
    /\ DiskAtRest
    /\ OpenAtRest
    /\ cnt \in CntStarts /\ now = 0
    /\ bitcycles \in BitCycleChoices
    /\ nonblock \in BOOLEAN
    /\ outa = 0 /\ dira = 0
    /\ tpc = "idle" /\ tc = 0 /\ tvalue = 0 /\ ti = 0 /\ twait = <<0, 0>> /\ tret = 0
    /\ rpc = "idle" /\ rvalue = 0 /\ ri = 0 /\ rwait = <<0, 0>> /\ rret = 0
    /\ puts = 0 /\ gets = 0 /\ t0 = 0 /\ edge = -1 /\ lat = -1
    /\ rcall = [at |-> -1, level |-> 1] /\ rxWaiting = FALSE
    /\ waits = 0 /\ samples = 0 /\ sameCycle = "none" /\ txlog = <<>>
    /\ txcalls = 1 /\ prevStop = -1

\* the transmitter alone: MaxPuts calls of _serial_putbyte, one after the other
InitTransmit ==
    /\ DiskAtRest
    /\ OpenAtRest
    /\ cnt \in CntStarts /\ now = 0
    /\ bitcycles \in BitCycleChoices
    /\ nonblock = FALSE
    /\ outa = 0 /\ dira = 0
    /\ tpc = "idle" /\ tc = 0 /\ tvalue = 0 /\ ti = 0 /\ twait = <<0, 0>> /\ tret = 0
    /\ rpc = "idle" /\ rvalue = 0 /\ ri = 0 /\ rwait = <<0, 0>> /\ rret = 0
    /\ puts = 0 /\ gets = 0 /\ t0 = 0 /\ edge = -1 /\ lat = -1
    /\ rcall = [at |-> -1, level |-> 1] /\ rxWaiting = FALSE
    /\ waits = 0 /\ samples = 0 /\ sameCycle = "none" /\ txlog = <<>>
    /\ txcalls = MaxPuts /\ prevStop = -1

\* a call of _serial_putbyte has returned and the program will make another
BetweenCalls == tpc = "idle" /\ puts >= 1 /\ puts < txcalls

(***************************************************************************)
(* _serial_putbyte (SimpleSerial.c:36-67)                                  *)
(***************************************************************************)
\* One call of each function is followed: puts = 0 and gets = 0 guard the calls.

\* mutant: value = c | 256, without the shift that makes the start bit
PutStartNoStartBit ==
    /\ tpc = "idle"
    /\ puts < txcalls
    /\ \E c \in (IF puts = 0 THEN 0..255 ELSE LaterBytes) :
        /\ tc' = c
        /\ tvalue' = BitOr(c, 256)
    /\ outa' = 1 /\ dira' = 1
    /\ twait' = Add32(cnt, bitcycles)
    /\ ti' = 0
    /\ tpc' = "wait"
    /\ puts' = puts + 1
    /\ t0' = now
    /\ rxWaiting' = (rpc = "start")
    /\ txlog' = <<>>
    /\ tret' = -1
    /\ prevStop' = IF puts = 0 THEN -1 ELSE t0 + txlog[10][1]
    /\ UNCHANGED <<dvars, ovars, txcalls>>
    /\ UNCHANGED sameCycle
    /\ UNCHANGED <<cnt, now, bitcycles, nonblock, rpc, rvalue, ri, rwait,
                   rret, gets, edge, lat, rcall, waits, samples>>

\* mutant: waitcycles = getcnt(), without the bit-duration before the start bit
PutStartNoLead ==
    /\ tpc = "idle"
    /\ puts < txcalls
    /\ \E c \in (IF puts = 0 THEN 0..255 ELSE LaterBytes) :
        /\ tc' = c
        /\ tvalue' = BitOr(c, 256) * 2
    /\ outa' = 1 /\ dira' = 1
    /\ twait' = cnt
    /\ ti' = 0
    /\ tpc' = "wait"
    /\ puts' = puts + 1
    /\ t0' = now
    /\ rxWaiting' = (rpc = "start")
    /\ txlog' = <<>>
    /\ tret' = -1
    /\ prevStop' = IF puts = 0 THEN -1 ELSE t0 + txlog[10][1]
    /\ UNCHANGED <<dvars, ovars, txcalls>>
    /\ UNCHANGED sameCycle
    /\ UNCHANGED <<cnt, now, bitcycles, nonblock, rpc, rvalue, ri, rwait,
                   rret, gets, edge, lat, rcall, waits, samples>>

\* lines 40-50: the pin made a high output, value = (c | 256) << 1,
\* waitcycles = getcnt() + bitcycles
PutStart ==
    /\ tpc = "idle"
    /\ puts < txcalls
    /\ \E c \in (IF puts = 0 THEN 0..255 ELSE LaterBytes) :
        /\ tc' = c
        /\ tvalue' = BitOr(c, 256) * 2
    /\ outa' = 1 /\ dira' = 1
    /\ twait' = Add32(cnt, bitcycles)
    /\ ti' = 0
    /\ tpc' = "wait"
    /\ puts' = puts + 1
    /\ t0' = now
    /\ rxWaiting' = (rpc = "start")
    /\ txlog' = <<>>
    /\ tret' = -1
    /\ prevStop' = IF puts = 0 THEN -1 ELSE t0 + txlog[10][1]
    /\ UNCHANGED <<dvars, ovars, txcalls>>
    /\ UNCHANGED sameCycle
    /\ UNCHANGED <<cnt, now, bitcycles, nonblock, rpc, rvalue, ri, rwait,
                   rret, gets, edge, lat, rcall, waits, samples>>

\* lines 51-59 and 66: one pass of the loop, from waitcnt to i++; return c
PutBit ==
    /\ tpc = "wait"
    /\ cnt = twait
    /\ ~(sameCycle = "read first" /\ rpc = "sample" /\ cnt = rwait)
    /\ twait' = Add32(twait, bitcycles)
    /\ outa' = tvalue % 2
    /\ tvalue' = tvalue \div 2
    /\ ti' = ti + 1
    /\ txlog' = Append(txlog, <<now - t0, tvalue % 2>>)
    /\ edge' = IF ti = 0 THEN now ELSE edge
    /\ IF ti + 1 < 10
       THEN UNCHANGED <<tpc, tret>>
       ELSE tpc' = "idle" /\ tret' = tc
    /\ UNCHANGED <<dvars, ovars, txcalls, prevStop>>
    /\ UNCHANGED sameCycle
    /\ UNCHANGED <<cnt, now, bitcycles, nonblock, dira, tc, rpc, rvalue, ri,
                   rwait, rret, puts, gets, t0, lat, rcall, rxWaiting, waits,
                   samples>>

(***************************************************************************)
(* _serial_getbyte (SimpleSerial.c:88-119)                                 *)
(***************************************************************************)
\* mutant: waits the half bit only, and samples the start bit first
SyncHalfBit ==
    /\ rwait' = Add32(cnt, bitcycles \div 2)
    /\ rvalue' = 0
    /\ ri' = 0
    /\ rpc' = "sample"
    /\ lat' = now - edge
    /\ sameCycle' \in {"write first", "read first"}

\* line 110: waitcycles = getcnt() + (bitcycles>>1) + bitcycles; value = 0; i = 0
Sync ==
    /\ rwait' = Add32(cnt, (bitcycles \div 2) + bitcycles)
    /\ rvalue' = 0
    /\ ri' = 0
    /\ rpc' = "sample"
    /\ lat' = now - edge
    /\ sameCycle' \in {"write first", "read first"}

\* mutant: returns -1 when the pin is low, and goes on when it is high
GetStartInverted ==
    /\ rpc = "idle"
    /\ gets = 0
    /\ tpc = "idle" \/ (nonblock /\ ti = 1)
    /\ gets' = gets + 1
    /\ rcall' = [at |-> now, level |-> Line]
    /\ samples' = 0
    /\ IF nonblock
       THEN IF Line = 0
            THEN /\ rret' = -1
                 /\ waits' = 0
                 /\ UNCHANGED <<rpc, rvalue, ri, rwait, lat, sameCycle>>
            ELSE /\ Sync
                 /\ waits' = 0
                 /\ UNCHANGED rret
       ELSE /\ rpc' = "start"
            /\ waits' = 1
            /\ UNCHANGED <<rvalue, ri, rwait, rret, lat, sameCycle>>
    /\ UNCHANGED <<dvars, ovars, txcalls, prevStop>>
    /\ UNCHANGED <<cnt, now, bitcycles, nonblock, outa, dira, tpc, tc, tvalue, ti,
                   twait, tret, puts, t0, edge, rxWaiting, txlog>>

\* lines 92-108: the call, up to the wait for a start bit.  The call is made
\* while the transmitter is not in a call or, when it does not block, during
\* the transmitter's start bit.
GetStart ==
    /\ rpc = "idle"
    /\ gets = 0
    /\ tpc = "idle" \/ (nonblock /\ ti = 1)
    /\ gets' = gets + 1
    /\ rcall' = [at |-> now, level |-> Line]
    /\ samples' = 0
    /\ IF nonblock
       THEN IF Line # 0
            THEN /\ rret' = -1
                 /\ waits' = 0
                 /\ UNCHANGED <<rpc, rvalue, ri, rwait, lat, sameCycle>>
            ELSE /\ Sync
                 /\ waits' = 0
                 /\ UNCHANGED rret
       ELSE /\ rpc' = "start"
            /\ waits' = 1
            /\ UNCHANGED <<rvalue, ri, rwait, rret, lat, sameCycle>>
    /\ UNCHANGED <<dvars, ovars, txcalls, prevStop>>
    /\ UNCHANGED <<cnt, now, bitcycles, nonblock, outa, dira, tpc, tc, tvalue, ti,
                   twait, tret, puts, t0, edge, rxWaiting, txlog>>

\* lines 107 and 110: waitpeq(0, rxmask) returns, some cycles after the pin
\* went low, and the counter is read
GetDetect ==
    /\ rpc = "start"
    /\ Line = 0
    /\ Sync
    /\ UNCHANGED <<dvars, ovars, txcalls, prevStop>>
    /\ UNCHANGED <<cnt, now, bitcycles, nonblock, outa, dira, tpc, tc, tvalue, ti,
                   twait, tret, rret, puts, gets, t0, edge, rcall, rxWaiting,
                   waits, samples, txlog>>

\* lines 112-115: one pass of the loop, from waitcnt to i++
GetSample ==
    /\ rpc = "sample"
    /\ cnt = rwait
    /\ ~(sameCycle = "write first" /\ tpc = "wait" /\ cnt = twait)
    /\ rwait' = Add32(rwait, bitcycles)
    /\ rvalue' = BitOr((IF Line # 0 THEN 1 ELSE 0) * 128, rvalue \div 2)
    /\ ri' = ri + 1
    /\ waits' = waits + 1
    /\ samples' = samples + 1
    /\ rpc' = IF ri + 1 < 8 THEN rpc ELSE "stop"
    /\ UNCHANGED <<dvars, ovars, txcalls, prevStop>>
    /\ UNCHANGED sameCycle
    /\ UNCHANGED <<cnt, now, bitcycles, nonblock, outa, dira, tpc, tc, tvalue, ti,
                   twait, tret, rret, puts, gets, t0, edge, lat, rcall, rxWaiting,
                   txlog>>

\* lines 117-118: waitpeq(rxmask, rxmask) returns with the pin high; return value
GetStop ==
    /\ rpc = "stop"
    /\ Line = 1
    /\ rret' = rvalue
    /\ waits' = waits + 1
    /\ rpc' = "idle"
    /\ UNCHANGED <<dvars, ovars, txcalls, prevStop>>
    /\ UNCHANGED sameCycle
    /\ UNCHANGED <<cnt, now, bitcycles, nonblock, outa, dira, tpc, tc, tvalue, ti,
                   twait, tret, rvalue, ri, rwait, puts, gets, t0, edge, lat,
                   rcall, rxWaiting, samples, txlog>>

\* One cycle passes.  It does not pass over a cycle in which a waitcnt is due
\* or in which the pin has the level the last waitpeq waits for; the wait for
\* the start bit returns before the start bit has ended.
Tick ==
    /\ \/ tpc = "wait"
       \/ rpc = "sample"
       \/ BetweenCalls /\ now - (t0 + txlog[10][1]) < MaxGap
    /\ ~(tpc = "wait" /\ cnt = twait)
    /\ ~(rpc = "sample" /\ cnt = rwait)
    /\ ~(rpc = "stop" /\ Line = 1)
    /\ ~(rpc = "start" /\ Line = 0 /\ now - edge >= bitcycles - 1)
    /\ cnt' = Add32(cnt, 1)
    /\ now' = now + 1
    /\ UNCHANGED <<dvars, ovars, txcalls, prevStop>>
    /\ UNCHANGED sameCycle
    /\ UNCHANGED <<bitcycles, nonblock, outa, dira, tpc, tc, tvalue, ti, twait,
                   tret, rpc, rvalue, ri, rwait, rret, puts, gets, t0, edge, lat,
                   rcall, rxWaiting, waits, samples, txlog>>

(***************************************************************************)
(* Specifications                                                          *)
(***************************************************************************)
NextDisk ==
    \/ disk_status
    \/ disk_initialize
    \/ disk_read
    \/ disk_write
    \/ disk_ioctl

\* the state after start-up: no card classified, no call made
InitDisk == DiskAtRest /\ SerialAtRest /\ OpenAtRest

SpecDisk == InitDisk /\ [][NextDisk]_vars

NextSerial ==
    \/ PutStart
    \/ PutBit
    \/ GetStart
    \/ GetDetect
    \/ GetSample
    \/ GetStop
    \/ Tick

SpecSerial == InitSerial /\ [][NextSerial]_vars

\* the call, with any string
InitOpen ==
    /\ DiskAtRest
    /\ SerialAtRest
    /\ opc = "call"
    /\ name \in Names
    /\ pos = 1
    /\ baud = U32(0) /\ rxpin = U32(0) /\ txpin = U32(0)
    /\ drvarg = <<>> /\ uart = <<>> /\ iodev = FALSE /\ lock = "none" /\ oret = -1

NextTransmit ==
    \/ PutStart
    \/ PutBit
    \/ Tick

SpecTransmit == InitTransmit /\ [][NextTransmit]_vars

NextOpen == serial_fopen

SpecOpen == InitOpen /\ [][NextOpen]_vars

(***************************************************************************)
(* Reading the record of a call                                            *)
(***************************************************************************)
\* the function f has returned and nothing was called since
Returned(f) == pc = "idle" /\ fn = f

\* the entries of bus made by line `at` of diskio.c
At(at) == { k \in DOMAIN bus : bus[k].at = at }

\* line `at` made a transport call that returned r
Answered(at, r) == \E k \in At(at) : bus[k].res = r

\* how many transport calls line `at` made
RECURSIVE CallsIn(_, _)
CallsIn(log, at) ==
    IF log = <<>> THEN 0
    ELSE (IF Head(log).at = at THEN Head(log).n ELSE 0) + CallsIn(Tail(log), at)

\* how many transport calls of line `at` returned r
RECURSIVE AnswersIn(_, _, _)
AnswersIn(log, at, r) ==
    IF log = <<>> THEN 0
    ELSE (IF Head(log).at = at /\ Head(log).res = r THEN Head(log).n ELSE 0)
         + AnswersIn(Tail(log), at, r)

\* how many times ReleaseSD was called
RECURSIVE Releases(_)
Releases(log) ==
    IF log = <<>> THEN 0
    ELSE (IF Head(log).op = "ReleaseSD" THEN Head(log).n ELSE 0) + Releases(Tail(log))

(***************************************************************************)
(* C3  disk_initialize, SD v2                                              *)
(***************************************************************************)
\* the card acknowledges CMD0 and CMD8 with 1, echoes 0x01/0xAA and answers
\* ACMD41(1<<30) with 0 within the 10000 polls
SDv2Card ==
    /\ Answered(53, 1)
    /\ Answered(55, 1)
    /\ \E k \in At(57) : bus[k].data[3] = 1 /\ bus[k].data[4] = 170
    /\ \E k \in At(62) : bus[k].res = 0 /\ bus[k].arg = <<16384, 0>>

\* bit 6 of byte 0 of the reply read after CMD58
OcrBit6 == \E k \in At(70) : BitAnd(bus[k].data[1], 64) # 0

ClassifiedSDv2 ==
    /\ CardType \in {CT_SDC2, CT_SDC2 + CT_BLOCK}
    /\ (BitAnd(CardType, CT_BLOCK) # 0) <=> OcrBit6
    /\ ret = "0"

\* C3 as claimed: every such card ends as CT_SDC2 (with CT_BLOCK iff bit 6 of
\* the CMD58 reply), and disk_initialize returns success.
C3_AsClaimed ==
    (Returned("disk_initialize") /\ SDv2Card) => ClassifiedSDv2

\* C3 amended: every such card that also answers CMD58 with 0 ends as CT_SDC2,
\* with CT_BLOCK if and only if bit 6 of byte 0 of the CMD58 reply is set, and
\* disk_initialize returns success; when CMD58 is answered otherwise the
\* stored type is 0 and the call returns STA_NOINIT.
C3_SDv2Classified ==
    (Returned("disk_initialize") /\ SDv2Card) =>
        IF Answered(68, 0)
        THEN ClassifiedSDv2
        ELSE CardType = 0 /\ ret = STA_NOINIT

\* an SD v2 block-addressed card that became ready on the last allowed poll
C3_Witness ==
    /\ Returned("disk_initialize") /\ SDv2Card
    /\ AnswersIn(bus, 62, 1) = MaxPolls - 1
    /\ Answered(68, 0)
    /\ OcrBit6
    /\ CardType = CT_SDC2 + CT_BLOCK

(***************************************************************************)
(* C4  disk_initialize, SD v1 and MMC                                      *)
(***************************************************************************)
\* the card acknowledged CMD0, did not acknowledge CMD8, and was probed
LegacyCard ==
    /\ fn = "disk_initialize"
    /\ Answered(53, 1)
    /\ \E k \in At(55) : bus[k].res # 1
    /\ At(81) # {}

ProbeAnswer == bus[CHOOSE k \in At(81) : TRUE].res

NeverReady(at) == At(at) # {} /\ ~Answered(at, 0)

\* C5: when the polling command never answers 0, the loop stops after exactly
\* 10000 polls, the stored type is 0, no CMD58 is sent, and disk_initialize
\* returns STA_NOINIT; in the SD v2 loop and in the SD v1 / MMC loop.
C5_PollingTimeout ==
    \A at \in {62, 93} :
        (Returned("disk_initialize") /\ NeverReady(at)) =>
            /\ CallsIn(bus, at) = 10000
            /\ CardType = 0
            /\ At(68) = {}
            /\ ret = STA_NOINIT

\* an SD v1 card that answered busy to all 10000 polls
C5_Witness ==
    /\ Returned("disk_initialize")
    /\ NeverReady(93)
    /\ ProbeAnswer <= 1
    /\ CallsIn(bus, 93) = 10000
    /\ ret = STA_NOINIT

(***************************************************************************)
(* C6  ReleaseSD on every path                                             *)
(***************************************************************************)
BusFunctions == {"disk_initialize", "disk_read", "disk_write", "disk_ioctl"}

\* C6: every call of disk_initialize, disk_read, disk_write and disk_ioctl
\* calls ReleaseSD for its drive exactly once, as its last transport call.
C6_ReleasedOnce ==
    fn \in BusFunctions =>
        IF pc = "idle"
        THEN /\ bus # <<>>
             /\ bus[Len(bus)].op = "ReleaseSD"
             /\ bus[Len(bus)].drv = pdrv
             /\ Releases(bus) = 1
        ELSE Releases(bus) = 0

\* a write that failed midway, returned RES_ERROR and released the bus
C6_Witness ==
    /\ Returned("disk_write")
    /\ ret = RES_ERROR
    /\ \E k \in At(194) : bus[k].res = 0 /\ bus[k].off = 512
    /\ Releases(bus) = 1

(***************************************************************************)
(* C7  the choice of the commands                                          *)
(***************************************************************************)
SentCommand(c) == \E k \in DOMAIN bus : bus[k].op = "SendCommand" /\ bus[k].cmd = c

ReadCommands ==
    Returned("disk_read") =>
        /\ count = 1 => SentCommand("CMD17") /\ ~SentCommand("CMD18")
        /\ count > 1 => SentCommand("CMD18") /\ ~SentCommand("CMD17")

WriteCommands ==
    Returned("disk_write") =>
        /\ count = 1 => SentCommand("CMD24") /\ ~SentCommand("CMD25")
        /\ count > 1 => SentCommand("CMD25") /\ ~SentCommand("CMD24")
        /\ \A k \in DOMAIN bus : bus[k].cmd = "ACMD23" =>
               /\ bus[k].arg = U32(count)
               /\ \E m \in DOMAIN bus : m > k /\ bus[m].cmd = "CMD25"
               /\ \A m \in DOMAIN bus : bus[m].cmd = "CMD25" => m > k

\* C7 as claimed: ACMD23 is sent if and only if count > 1 and the card is SD.
C7_AsClaimed ==
    /\ ReadCommands
    /\ WriteCommands
    /\ Returned("disk_write") =>
           (SentCommand("ACMD23") <=> (count > 1 /\ BitAnd(CardType, CT_SDC) # 0))

\* C7 amended: disk_read issues CMD17 for count = 1 and CMD18 for count > 1;
\* disk_write issues CMD24 for count = 1 and CMD25 for count > 1; ACMD23(count)
\* is sent if and only if count is not 1 (so also for count = 0) and the stored
\* card type has a CT_SDC bit, and it is sent before CMD25.
C7_CommandSelection ==
    /\ ReadCommands
    /\ WriteCommands
    /\ Returned("disk_write") =>
           (SentCommand("ACMD23") <=> (count # 1 /\ BitAnd(CardType, CT_SDC) # 0))

\* a three-sector write to an SD v2 card: ACMD23(3), then CMD25
C7_Witness ==
    /\ Returned("disk_write")
    /\ count = 3
    /\ CardType = CT_SDC2 + CT_BLOCK
    /\ \E k \in At(189) : bus[k].arg = U32(3) /\ bus[k + 1].cmd = "CMD25"

(***************************************************************************)
(* C8  a write whose block k fails                                         *)
(***************************************************************************)
\* the entries of bus that send a data block (tokens 0xFE and 0xFC)
DataBlocks == { k \in DOMAIN bus : bus[k].op = "SendBlock" /\ bus[k].tok \in {254, 252} }

\* C8: a disk_write of N >= 1 sectors in which SendBlock fails on block k < N
\* returns RES_ERROR, sends no data block after block k, ends with a success
\* count below N, and releases the bus.
C8_WriteBlockFails ==
    \A k \in DataBlocks :
        (Returned("disk_write") /\ count >= 1 /\ bus[k].res = 0) =>
            /\ bus[k].off < 512 * count
            /\ ret = RES_ERROR
            /\ \A m \in DataBlocks : bus[m].off <= bus[k].off /\ m <= k
            /\ i < count
            /\ bus[Len(bus)].op = "ReleaseSD"

\* N = MaxCount sectors, block N/2 fails, the stop token is accepted
C8_Witness ==
    /\ Returned("disk_write")
    /\ count = MaxCount
    /\ \E k \in DataBlocks : bus[k].res = 0 /\ bus[k].off = 512 * (MaxCount \div 2)
    /\ Answered(198, 1)
    /\ ret = RES_ERROR

(***************************************************************************)
(* C9  the stop token of a multi-sector write                              *)
(***************************************************************************)
StopTokens == { k \in DOMAIN bus : bus[k].op = "SendBlock" /\ bus[k].tok = 253 }

\* C9: in a disk_write of count >= 2 sectors whose CMD25 was accepted, the
\* stop token 0xFD is sent exactly once, after the data blocks, whether or not
\* they were all accepted; if it is rejected the call returns RES_ERROR.
C9_StopToken ==
    (Returned("disk_write") /\ count >= 2 /\ Answered(190, 0)) =>
        /\ Cardinality(StopTokens) = 1
        /\ \A k \in StopTokens :
            /\ bus[k].n = 1
            /\ \A m \in DataBlocks : m < k
            /\ bus[k].res = 0 => ret = RES_ERROR

\* every data block accepted, the stop token rejected, RES_ERROR returned
C9_Witness ==
    /\ Returned("disk_write")
    /\ count >= 2
    /\ AnswersIn(bus, 194, 1) = count
    /\ Answered(198, 0)
    /\ ret = RES_ERROR

(***************************************************************************)
(* C10  the result of disk_read                                            *)
(***************************************************************************)
\* C10: disk_read returns RES_OK if and only if the number of blocks received
\* equals count, and RES_ERROR otherwise; for count >= 1, exactly when the
\* read command was accepted and all count ReceiveBlock calls succeeded.
C10_ReadResult ==
    Returned("disk_read") =>
        /\ ret \in {RES_OK, RES_ERROR}
        /\ ret = RES_OK <=> AnswersIn(bus, 142, 1) = count
        /\ count >= 1 =>
               (ret = RES_OK <=> (Answered(138, 0) /\ AnswersIn(bus, 142, 0) = 0
                                   /\ CallsIn(bus, 142) = count))

\* a read of MaxCount sectors that received them all
C10_Witness ==
    /\ Returned("disk_read")
    /\ count = MaxCount
    /\ AnswersIn(bus, 142, 1) = MaxCount
    /\ ret = RES_OK

(***************************************************************************)
(* C1  the round trip of a byte                                            *)
(***************************************************************************)
\* _serial_getbyte has returned a byte it sampled
Received == gets = 1 /\ rpc = "idle" /\ samples = 8

\* a blocking _serial_getbyte was waiting on the idle line when
\* _serial_putbyte started, and saw the start edge less than half a
\* bit-duration after it
LoopedBack == Received /\ rxWaiting /\ ~nonblock /\ 2 * lat < bitcycles

\* C1: with tx looped back to rx, one bit-duration on both sides, the line idle
\* high and a blocking _serial_getbyte waiting when _serial_putbyte(b) starts,
\* _serial_getbyte returns b, for every b in 0..255.
C1_RoundTrip == LoopedBack => rret = tc

\* 0xA5 came back, seen a cycle after its start edge, across the counter's wrap
C1_Witness ==
    /\ LoopedBack
    /\ tc = 165 /\ rret = 165
    /\ bitcycles = 3 /\ lat = 1
    /\ cnt[1] = 0

\* without the bound on the latency the byte need not come back
C1_AnyLatency == (Received /\ rxWaiting /\ ~nonblock) => rret = tc

(***************************************************************************)
(* C2  _serial_getbyte that does not block                                 *)
(***************************************************************************)
\* C2: with _IONONBLOCK set and the rx pin high at the call, _serial_getbyte
\* returns -1 at once, without a waitcnt or a waitpeq and without sampling a
\* bit; a byte that was received is in 0..255, never -1.
C2_NoData ==
    /\ (gets = 1 /\ nonblock /\ rcall.level = 1) =>
           /\ rpc = "idle"
           /\ rret = -1
           /\ waits = 0
           /\ samples = 0
    /\ Received => rret \in 0..255
    /\ (gets = 1 /\ rpc = "idle" /\ rret = -1) => (nonblock /\ samples = 0)

\* called after a byte went by on the line, which is high again: -1
C2_Witness ==
    /\ gets = 1 /\ nonblock
    /\ puts = 1 /\ tpc = "idle"
    /\ rcall.level = 1 /\ rcall.at > 0
    /\ rret = -1

(***************************************************************************)
(* C11  CMD12 after a multi-block read                                     *)
(***************************************************************************)
\* the entries of bus that send the command c
Commands(c) == { k \in DOMAIN bus : bus[k].op = "SendCommand" /\ bus[k].cmd = c }

\* CMD12 was sent, after CMD18 and every ReceiveBlock, just before ReleaseSD
StoppedBeforeRelease ==
    \E k \in Commands("CMD12") :
        /\ \A m \in Commands("CMD18") \cup At(142) : m < k
        /\ k + 1 = Len(bus)
        /\ bus[k + 1].op = "ReleaseSD"

\* C11 as claimed: whenever disk_read issues CMD18 (count > 1) it sends CMD12
\* afterwards, before releasing chip-select, whether the transfer succeeded
\* or not.
C11_AsClaimed ==
    (Returned("disk_read") /\ count > 1) =>
        (SentCommand("CMD18") /\ StoppedBeforeRelease)

\* C11 amended: whenever the CMD18 of a disk_read (count > 1) was accepted
\* (response 0), CMD12 is sent exactly once, after the last ReceiveBlock and
\* just before ReleaseSD, whether every block was received or not; a disk_read
\* whose CMD18 was rejected, or that used CMD17, sends no CMD12.
C11_StopTransmission ==
    Returned("disk_read") =>
        /\ (count > 1 /\ Answered(138, 0)) =>
               /\ StoppedBeforeRelease
               /\ Cardinality(Commands("CMD12")) = 1
               /\ \A k \in Commands("CMD12") : bus[k].n = 1 /\ bus[k].arg = U32(0)
        /\ SentCommand("CMD12") => (count > 1 /\ Answered(138, 0))

\* a read of MaxCount sectors whose second block failed: CMD12, then RES_ERROR
C11_Witness ==
    /\ Returned("disk_read")
    /\ count = MaxCount
    /\ Answered(142, 0)
    /\ i = 1
    /\ StoppedBeforeRelease
    /\ ret = RES_ERROR

(***************************************************************************)
(* C12  the card type as state of a drive                                  *)
(***************************************************************************)
\* the card type that a disk_read or a disk_write of drive d tests: the one
\* static CardType, whatever d is (diskio.c:130, 176 and 188)
TypeUsed(d) == CardType

\* C12 as claimed: after a successful disk_initialize(d), a disk_initialize of
\* another drive, successful or failed, does not change the card type that
\* later disk_read and disk_write calls on drive d use.
C12_AsClaimed ==
    [][ \A d \in Drives :
            (pc = "init_store" /\ session.drv = d /\ pdrv # d) =>
                TypeUsed(d)' = session.type ]_vars

\* drive 0 was classified SD v2 with block addressing, the disk_initialize of
\* another drive failed, and a disk_read of sector 1 of drive 0 sent CMD17 with
\* the byte address 512
C12_Diverged ==
    /\ Returned("disk_read")
    /\ pdrv = 0 /\ session = [drv |-> 0, type |-> CT_SDC2 + CT_BLOCK]
    /\ sector = U32(1) /\ count = 1
    /\ \E k \in Commands("CMD17") : bus[k].arg = U32(512)

(***************************************************************************)
(* C13  only disk_initialize changes the stored card type                  *)
(***************************************************************************)
\* C13: the stored card type changes only in disk_initialize: no step of
\* disk_status, disk_read, disk_write or disk_ioctl, successful or failing,
\* on any drive and with any arguments, changes it, so after any sequence of
\* them it is the value the most recent disk_initialize wrote (the only step
\* that assigns it is the store of line 101, which writes type).
C13_OnlyInitialize ==
    [][ /\ CardType' # CardType =>
               (fn = "disk_initialize" /\ pc = "init_store" /\ CardType' = type)
        /\ fn' \in {"disk_status", "disk_read", "disk_write", "disk_ioctl"} =>
               CardType' = CardType ]_vars

\* a three-sector write to drive 1 failed after a disk_initialize had stored
\* SD v2 with block addressing: the type is still stored
C13_Witness ==
    /\ Returned("disk_write")
    /\ pdrv = 1 /\ count = 3
    /\ ret = RES_ERROR
    /\ session.type = CT_SDC2 + CT_BLOCK
    /\ CardType = CT_SDC2 + CT_BLOCK

(***************************************************************************)
(* C14  what disk_initialize returns                                       *)
(***************************************************************************)
\* C14: after every disk_initialize the return value is STA_NOINIT if and
\* only if the stored card type is 0, and 0 (success) otherwise; when CMD0 is
\* not answered with 1 no further command is sent, the type is 0 and STA_NOINIT
\* is returned; a disk_initialize that fails stores 0 whatever was stored
\* before.
C14_InitReturn ==
    Returned("disk_initialize") =>
        /\ ret \in {STA_NOINIT, "0"}
        /\ ret = STA_NOINIT <=> CardType = 0
        /\ CardType = type
        /\ ~Answered(53, 1) =>
               /\ \A k \in DOMAIN bus :
                      bus[k].op = "SendCommand" => (bus[k].cmd = "CMD0" /\ bus[k].n = 1)
               /\ CardType = 0
               /\ ret = STA_NOINIT

\* drive 0 was initialized with success; then CMD0 of a disk_initialize of
\* drive 1 was answered 0: the stored type is 0 again
C14_Witness ==
    /\ Returned("disk_initialize")
    /\ pdrv = 1
    /\ session.drv = 0 /\ session.type # 0
    /\ Answered(53, 0)
    /\ ret = STA_NOINIT
    /\ CardType = 0

(***************************************************************************)
(* C15  GET_SECTOR_COUNT, CSD with bit 5 of byte 0 set                     *)
(***************************************************************************)
\* disk_ioctl(GET_SECTOR_COUNT) has returned, CMD9 was accepted and a CSD with
\* bit 5 of byte 0 set was received
SectorCountV1Read ==
    /\ Returned("disk_ioctl") /\ ctrl = "GET_SECTOR_COUNT"
    /\ Answered(239, 0) /\ Answered(240, 1)
    /\ BitAnd(Byte(csd, 0), 32) # 0

\* the 22-bit field of csd[7..9]
Field22(c) == Byte(c, 9) + Byte(c, 8) * 256 + BitAnd(Byte(c, 7), 63) * 65536

\* (f + 1) << 10 as a number, in halves: the high one is not cut to 16 bits
Times1024(f) == <<(f + 1) \div 64, ((f + 1) % 64) * 1024>>

\* C15 as claimed: disk_ioctl(GET_SECTOR_COUNT) with CMD9 accepted and a CSD
\* with bit 5 of byte 0 set returns RES_OK and stores the sector count
\* (csd[9] + (csd[8] << 8) + ((csd[7] & 63) << 16) + 1) << 10 for every value of
\* the 22-bit field; csd[7..9] = 0x3F, 0x00, 0x01 gives 4227860480 (0xFC000800).
C15_AsClaimed ==
    SectorCountV1Read =>
        /\ ret = RES_OK
        /\ out = Times1024(Field22(csd))
        /\ Field22(csd) = 63 * 65536 + 1 => out = <<64512, 2048>>

\* the field is 0x3FFFFF (csd[7..9] = 0x3F, 0xFF, 0xFF): RES_OK, and 0 sectors
C15_Diverged ==
    /\ SectorCountV1Read
    /\ Field22(csd) = 64 * 65536 - 1
    /\ ret = RES_OK
    /\ out = U32(0)

\* for every smaller field the count stored is the one claimed
C15_BelowTheTop ==
    (SectorCountV1Read /\ Field22(csd) < 64 * 65536 - 1) =>
        /\ ret = RES_OK
        /\ out = Times1024(Field22(csd))
        /\ Field22(csd) = 63 * 65536 + 1 => out = <<64512, 2048>>

(***************************************************************************)
(* C16  the address passed to the read and write commands                  *)
(***************************************************************************)
\* the entries of bus that send CMD17, CMD18, CMD24 or CMD25
TransferCommands ==
    Commands("CMD17") \cup Commands("CMD18") \cup Commands("CMD24") \cup Commands("CMD25")

\* s * 512 as a number, in halves: the high one is not cut to 16 bits
ByteAddress(s) == <<s[1] * 512 + (s[2] * 512) \div Half, (s[2] * 512) % Half>>

\* C16 as claimed: the argument of CMD17/CMD18 in disk_read and of CMD24/CMD25
\* in disk_write is the start sector when the stored card type has CT_BLOCK
\* set, and the byte address sector * 512 when it is clear, for every 32-bit
\* sector index.
C16_AsClaimed ==
    fn \in {"disk_read", "disk_write"} =>
        \A k \in TransferCommands :
            bus[k].arg = IF BitAnd(CardType, CT_BLOCK) # 0
                         THEN sector ELSE ByteAddress(sector)

\* a write of sector 0x800000 to a byte-addressed SD v1 card went to address 0
\* and was reported done
C16_Diverged ==
    /\ Returned("disk_write")
    /\ CardType = CT_SDC1
    /\ sector = <<128, 0>> /\ count = 1
    /\ \E k \in Commands("CMD24") : bus[k].arg = U32(0)
    /\ ret = RES_OK

\* below sector 0x800000, and on block-addressed cards, the argument is the
\* one claimed
C16_InRange ==
    (fn \in {"disk_read", "disk_write"}
        /\ (sector[1] < 128 \/ BitAnd(CardType, CT_BLOCK) # 0)) =>
        \A k \in TransferCommands :
            bus[k].arg = IF BitAnd(CardType, CT_BLOCK) # 0
                         THEN sector ELSE ByteAddress(sector)

(***************************************************************************)
(* C17  the connection string of _serial_fopen                             *)
(***************************************************************************)
\* the positions of the commas of the string s
Commas(s) == { p \in 1..Len(s) : s[p] = "," }

\* the position of the k-th comma of s, Len(s) + 1 when there are fewer
Comma(s, k) ==
    IF Cardinality(Commas(s)) >= k
    THEN CHOOSE p \in Commas(s) : Cardinality({ q \in Commas(s) : q < p }) = k - 1
    ELSE Len(s) + 1

\* the text of the k-th field of s: what stands between the commas around it
FieldText(s, k) ==
    IF k = 1 THEN SubSeq(s, 1, Comma(s, 1) - 1)
    ELSE SubSeq(s, Comma(s, k - 1) + 1, Comma(s, k) - 1)

\* the string goes as far as its k-th field: it is not empty, and the comma
\* before the field is there
Reached(k) == ~name.null /\ name.s # <<>> /\ Cardinality(Commas(name.s)) >= k - 1

\* the k-th field is given: it is reached and is not empty
Given(k) == Reached(k) /\ FieldText(name.s, k) # <<>>

Default(k) ==
    CASE k = 1 -> U32(dbgbaud) [] k = 2 -> U32(DBG_UART_RX_PIN) [] k = 3 -> U32(DBG_UART_TX_PIN)

\* what the call left in baud, rxpin, txpin
Assigned(k) == CASE k = 1 -> baud [] k = 2 -> rxpin [] k = 3 -> txpin

Opened ==
    /\ opc = "done"
    /\ oret = 0
    /\ drvarg = <<rxpin, txpin, baud>>

\* C17 as claimed: every field that is not given (no string, an empty string,
\* a missing or an omitted field) keeps its default, every given field takes
\* its parsed decimal value, in the order baud, rxpin, txpin, and the call
\* returns 0.
C17_AsClaimed ==
    opc = "done" =>
        /\ Opened
        /\ \A k \in 1..3 :
               Assigned(k) = IF Given(k)
                             THEN Unsigned(atoi(FieldText(name.s, k), 1))
                             ELSE Default(k)

\* C17 amended: with no string or an empty string the three fields keep their
\* defaults; otherwise baud is always assigned, rxpin is assigned when the
\* string has a first comma and txpin when it has a second one, each with the
\* atoi of the text of its field, which is 0 for a field left empty; only a
\* field the string does not reach keeps its default; the call returns 0.
C17_FieldsParsed ==
    opc = "done" =>
        /\ Opened
        /\ \A k \in 1..3 :
               Assigned(k) = IF Reached(k)
                             THEN Unsigned(atoi(FieldText(name.s, k), 1))
                             ELSE Default(k)

\* "9,,1": baud 9, rxpin 0 for the field left empty, txpin 1
C17_Witness ==
    /\ opc = "done"
    /\ name = [null |-> FALSE, s |-> <<"9", ",", ",", "1">>]
    /\ drvarg = <<U32(0), U32(1), U32(9)>>
    /\ oret = 0

(***************************************************************************)
(* C18  the frame _serial_putbyte sends                                    *)
(***************************************************************************)
\* the level of the k-th write of the frame of c: the start bit, bits 0..7 of
\* c, the stop bit
FrameBit(c, k) ==
    IF k = 1 THEN 0
    ELSE IF k = 10 THEN 1
    ELSE (c \div (2 ^ (k - 2))) % 2

\* a call of _serial_putbyte has returned
PutReturned == puts >= 1 /\ tpc = "idle"

C20_StopBitHeld ==
    /\ PutReturned => (outa = 1 /\ dira = 1)
    /\ prevStop # -1 =>
           /\ ti = 0 => Line = 1
           /\ ti >= 1 =>
                  /\ txlog[1][2] = 0
                  /\ (t0 + txlog[1][1]) - prevStop >= bitcycles

\* the next call was made in the cycle in which the call before returned: its
\* start bit was driven exactly one bit-duration after the stop bit
C20_Witness ==
    /\ puts = 2
    /\ prevStop # -1 /\ t0 = prevStop
    /\ ti >= 1
    /\ txlog[1][2] = 0
    /\ (t0 + txlog[1][1]) - prevStop = bitcycles

(***************************************************************************)
(* C19  disk_read stops at the first block that fails                      *)
(***************************************************************************)
\* how many ReceiveBlock calls of line 142 came before entry m of bus
BlockIndex(m) == Cardinality({ j \in At(142) : j < m })

\* C19: if ReceiveBlock fails for block k of a disk_read, no further
\* ReceiveBlock is called, the blocks 0..k-1 were each received into the
\* buffer at offset 512 * index, and nothing is written to the buffer at
\* offset 512 * (k + 1) or beyond.
C19_StopsAtFailure ==
    fn = "disk_read" =>
        \A k \in At(142) :
            bus[k].res = 0 =>
                /\ bus[k].n = 1
                /\ BlockIndex(k) = i
                /\ pc # "read_loop"
                /\ \A m \in At(142) :
                       /\ m <= k
                       /\ bus[m].n = 1
                       /\ bus[m].len = 512
                       /\ bus[m].off = 512 * BlockIndex(m)
                       /\ m < k => bus[m].res = 1
                       /\ bus[m].off + bus[m].len <= 512 * (BlockIndex(k) + 1)

\* a read of three sectors of drive 1: block 0 went to offset 0, block 1 to
\* offset 512 failed, and no ReceiveBlock was given offset 1024
C19_Witness ==
    /\ Returned("disk_read")
    /\ pdrv = 1 /\ count = 3
    /\ \E k \in At(142) : bus[k].off = 0 /\ bus[k].res = 1
    /\ \E k \in At(142) : bus[k].off = 512 /\ bus[k].res = 0
    /\ \A k \in At(142) : bus[k].off < 1024
    /\ ret = RES_ERROR

====
